---- MODULE Spec2Model ----
(***************************************************************************)
(* Mulholland Drive RAG chatbot: the ingestion pipeline (rag_prepare.py)   *)
(* and the query pipeline (rag_chatbot.py).                                *)
(*                                                                         *)
(* Strings are sequences of one-character strings, so that split, strip,   *)
(* join, find and slicing are computed as Python computes them.            *)
(***************************************************************************)
EXTENDS Integers, Sequences, FiniteSets, TLC

VARIABLES
    \* ---- rag_prepare.chunk_text (splitter path and fallback splitter) ----
    text,           \* the input text
    chunk_size,     \* parameter chunk_size
    chunk_overlap,  \* parameter chunk_overlap
    paragraphs,     \* local: the stripped non-empty paragraphs
    current,        \* local: the running buffer (list of strings)
    current_len,    \* local: the running length
    i,              \* local: index of the next paragraph (0-based)
    chunks,         \* local: the chunks emitted so far (the return value)
    cpc,            \* position in chunk_text: "splits" | "loop" | "done"
    splits,         \* local: the pieces splitter.split_text returned
    \* ---- the corpus file, rag_prepare.write_jsonl and
    \*      rag_chatbot.load_embeddings_and_chunks as functions ----
    file,           \* chunks.jsonl: [exists, lines]
    write_call,     \* the last call of write_jsonl: its arguments and outcome
    load_call,      \* the last call of load_embeddings_and_chunks: its outcome
    \* ---- rag_chatbot.retrieve_top_k as a function ----
    retrieve_call,  \* a call of retrieve_top_k: its arguments and outcome
    \* ---- rag_chatbot.call_gemini as a function ----
    gemini_call,    \* a call of call_gemini: the provider's behaviour, the outcome
    \* ---- rag_chatbot.main: one browser session of the Streamlit process ----
    api_key,        \* os.environ.get("GOOGLE_API_KEY"): "None" | "" | "key"
    cache_data,     \* st.cache_data of load_embeddings_and_chunks
    embedder_cache, \* st.cache_resource of get_embedder: "unset" | "None" | "embedder"
    session_state,  \* st.session_state: its keys and their values
    run,            \* the script run: position and locals
    shown,          \* what the run has put on the page
    history,        \* what happened before: the last question's outcome, ...
    \* ---- rag_prepare.main: one ingestion run ----
    ingest,         \* position, arguments, intermediate values, exit status
    \* ---- write_jsonl running beside a reader: the open output file ----
    writer          \* position, arguments, records handed to f.write

chunkVars == <<text, chunk_size, chunk_overlap, paragraphs, current,
               current_len, i, chunks, cpc, splits>>

callVars == <<write_call, load_call, retrieve_call, gemini_call>>

sessionVars == <<api_key, cache_data, embedder_cache, session_state, run, shown,
                 history>>

vars == <<chunkVars, file, callVars, sessionVars, ingest, writer>>

-----------------------------------------------------------------------------
(* Bounds of the model *)

MaxTextLen == 5
MaxChunkSize == 3
MaxChunks == 6
MaxLines == 3
MaxRecords == 2
MaxDocs == 3
MaxK == 4
MaxSessionLines == 2
MaxSplits == 2

-----------------------------------------------------------------------------
(* Values of the variables a specification does not use *)

NoFile == [exists |-> FALSE, lines |-> <<>>]

NoWrite == [called |-> FALSE, chunks |-> <<>>, vectors |-> <<>>,
            source_path |-> "", exc |-> "none"]

NoLoad == [called |-> FALSE, status |-> "none", emb |-> <<>>, chunks |-> <<>>,
           errors |-> 0]

IdleChunk ==
    /\ text = <<>>
    /\ chunk_size = 1
    /\ chunk_overlap = 0
    /\ paragraphs = <<>>
    /\ chunks = <<>>
    /\ current = <<>>
    /\ current_len = 0
    /\ i = 0
    /\ cpc = "idle"
    /\ splits = <<>>

IdleCorpus ==
    /\ file = NoFile
    /\ write_call = NoWrite
    /\ load_call = NoLoad

NoArray == [none |-> TRUE, rows |-> <<>>]

NoVector == [none |-> TRUE, v |-> <<>>]

NoRetrieve == [called |-> FALSE, query_vec |-> NoVector, doc_embeddings |-> NoArray,
               chunks |-> <<>>, top_k |-> 0, exc |-> "none", sims |-> <<>>,
               results |-> <<>>]

IdleRetrieve == retrieve_call = NoRetrieve

\* The provider as call_gemini meets it:
\*   sdk        "ok" | "ImportError"        import google.generativeai
\*   api_key    "None" | "" | "key"         os.environ.get("GOOGLE_API_KEY")
\*   configure  "ok" | "raises"             genai.configure, GenerativeModel
\*   generate   "ok" | "raises"             model.generate_content
\*   text       "text" | "empty" | "missing" | "raises"      resp.text
\*   parts      "text" | "IndexError" | "AttributeError" | "TypeError"
\*                                          resp.candidates[0].content.parts[0].text
NoProvider == [sdk |-> "ImportError", api_key |-> "None", configure |-> "ok",
               generate |-> "ok", text |-> "text", parts |-> "text"]

NoGemini == [called |-> FALSE, provider |-> NoProvider, exc |-> "none", value |-> ""]

IdleGemini == gemini_call = NoGemini

\* No ingestion run
NoIngest == [pc |-> "idle", input_exists |-> FALSE, input_text |-> <<>>,
             input |-> "", chunk_size |-> 1, chunk_overlap |-> 0,
             embedder |-> "unset", vectors |-> <<>>, exit_code |-> -1,
             error |-> "none"]

IdleIngest == ingest = NoIngest

\* No write_jsonl in progress
NoWriter == [pc |-> "idle", chunks |-> <<>>, vectors |-> <<>>, source_path |-> "",
             previous |-> NoFile, written |-> 0, exc |-> "none"]

IdleWriter == writer = NoWriter

EmptyCache == [cached |-> FALSE,
               value |-> [status |-> "none", emb |-> <<>>, chunks |-> <<>>, errors |-> 0]]

EmptySessionState == [keys |-> {}, doc_embeddings |-> <<>>, chunks |-> <<>>,
                      user_question |-> <<>>]

\* No run yet (pc "idle"; "done" once a run has ended: the page waits for the
\* user in both)
IdleRun == [pc |-> "idle", ask_button |-> FALSE, user_question |-> <<>>,
            query_vec |-> NoVector, results |-> <<>>, system_prompt |-> <<>>,
            answer |-> "", steps |-> <<>>,
            calls |-> [embedder |-> 0, provider |-> 0]]

\* prev: how the last question ended; failed: some question of the session
\* ended in a failure; served: an embed, retrieve or generate step has run
NoHistory == [prev |-> "none", failed |-> FALSE, served |-> FALSE]

IdleSession ==
    /\ api_key = "None"
    /\ cache_data = EmptyCache
    /\ embedder_cache = "unset"
    /\ session_state = EmptySessionState
    /\ run = IdleRun
    /\ shown = ""
    /\ history = NoHistory

-----------------------------------------------------------------------------
(* Python string primitives *)

Chars == {"a", " ", "\n"}

IsSpace(c) == c \in {" ", "\n"}

Min(S) == CHOOSE x \in S : \A y \in S : x <= y

Max(S) == CHOOSE x \in S : \A y \in S : x >= y

RECURSIVE LStrip(_)
LStrip(s) == IF s = <<>> \/ ~IsSpace(Head(s)) THEN s ELSE LStrip(Tail(s))

RECURSIVE RStrip(_)
RStrip(s) ==
    IF s = <<>> \/ ~IsSpace(s[Len(s)]) THEN s
    ELSE RStrip(SubSeq(s, 1, Len(s) - 1))

\* str.strip()
Strip(s) == RStrip(LStrip(s))

\* str.split("\n\n"): cut at each leftmost, non-overlapping separator
RECURSIVE SplitParagraphs(_)
SplitParagraphs(s) ==
    LET hits == {j \in 1..(Len(s) - 1) : s[j] = "\n" /\ s[j + 1] = "\n"}
    IN  IF hits = {} THEN <<s>>
        ELSE LET j == Min(hits)
             IN  <<SubSeq(s, 1, j - 1)>> \o SplitParagraphs(SubSeq(s, j + 2, Len(s)))

\* str.split(): cut at runs of whitespace, no empty words
RECURSIVE SplitWords(_)
SplitWords(s) ==
    LET t == LStrip(s)
    IN  IF t = <<>> THEN <<>>
        ELSE LET sp == {j \in 1..Len(t) : IsSpace(t[j])}
                 n  == IF sp = {} THEN Len(t) + 1 ELSE Min(sp)
             IN  <<SubSeq(t, 1, n - 1)>> \o SplitWords(SubSeq(t, n, Len(t)))

\* sep.join(parts)
RECURSIVE Join(_, _)
Join(sep, parts) ==
    IF parts = <<>> THEN <<>>
    ELSE IF Len(parts) = 1 THEN parts[1]
    ELSE parts[1] \o sep \o Join(sep, Tail(parts))

\* full.find(span): 0-based index of the first occurrence, -1 when absent
Find(full, span) ==
    LET hits == {j \in 0..(Len(full) - Len(span)) :
                    SubSeq(full, j + 1, j + Len(span)) = span}
    IN  IF hits = {} THEN -1 ELSE Min(hits)

\* s[-n:]  (s[-0:] is the whole string)
Suffix(s, n) ==
    IF n = 0 \/ n >= Len(s) THEN s ELSE SubSeq(s, Len(s) - n + 1, Len(s))

\* [x for x in seq if keep(x)]
RECURSIVE NonEmptyStripped(_)
NonEmptyStripped(ps) ==
    IF ps = <<>> THEN <<>>
    ELSE LET p == Strip(Head(ps))
         IN  (IF p # <<>> THEN <<p>> ELSE <<>>) \o NonEmptyStripped(Tail(ps))

-----------------------------------------------------------------------------
(* rag_prepare.py: chunk_text, fallback splitter *)

\* _locate_span_in_text(full_text, span_text)
LocateSpanInText(full_text, span_text) ==
    LET start == Find(full_text, span_text)
    IN  IF start = -1
        THEN [text |-> span_text, start |-> 0, end |-> Len(span_text)]
        ELSE [text |-> span_text, start |-> start, end |-> start + Len(span_text)]

\* paragraphs = [p.strip() for p in text.split("\n\n") if p.strip()],
\* replaced by [text] when empty
Paragraphs(t) ==
    LET ps == NonEmptyStripped(SplitParagraphs(t))
    IN  IF ps = <<>> THEN <<t>> ELSE ps

\* The inner while loop over the words of one very long paragraph: the chunks
\* it appends, from window start start_idx (0-based) on.
RECURSIVE WordWindows(_, _, _, _, _)
WordWindows(full_text, words, start_idx, size, overlap) ==
    IF ~(start_idx < Len(words)) THEN <<>>
    ELSE LET end_idx == Min({start_idx + size, Len(words)})
             piece   == Join(<<" ">>, SubSeq(words, start_idx + 1, end_idx))
             chunk   == LocateSpanInText(full_text, piece)
         IN  IF end_idx >= Len(words) THEN <<chunk>>
             ELSE <<chunk>> \o WordWindows(full_text, words,
                                          Max({end_idx - overlap, 0}), size, overlap)

\* The sequences over S of length at most n
SeqsUpTo(S, n) == UNION {[1..k -> S] : k \in 0..n}

\* The text inputs: every string over Chars of length at most MaxTextLen
Texts == UNION {[1..n -> Chars] : n \in 0..MaxTextLen}

\* State on entry to the paragraph loop (the recursive splitter could not be
\* imported): chunk_size > chunk_overlap >= 0.
InitChunk ==
    /\ text \in Texts
    /\ chunk_size \in 1..MaxChunkSize
    /\ chunk_overlap \in 0..(chunk_size - 1)
    /\ paragraphs = Paragraphs(text)
    /\ chunks = <<>>
    /\ current = <<>>
    /\ current_len = 0
    /\ i = 0
    /\ cpc = "loop"
    /\ splits = <<>>
    /\ IdleCorpus
    /\ IdleRetrieve
    /\ IdleGemini
    /\ IdleSession
    /\ IdleIngest
    /\ IdleWriter

\* One iteration of "while i < len(paragraphs)", branch: the paragraph fits
AppendParagraph ==
    /\ cpc = "loop"
    /\ i < Len(paragraphs)
    /\ Len(chunks) < MaxChunks
    /\ LET para == paragraphs[i + 1]
           para_len == Len(para)
       IN  /\ current_len + para_len + (IF current # <<>> THEN 2 ELSE 0) <= chunk_size
           /\ current' = Append(current, para)
           /\ current_len' = current_len + para_len + (IF current_len > 0 THEN 2 ELSE 0)
           /\ i' = i + 1
    /\ UNCHANGED <<text, chunk_size, chunk_overlap, paragraphs, chunks, cpc>>
    /\ UNCHANGED <<splits, file, callVars, sessionVars, ingest, writer>>

\* One iteration, branch: empty buffer and a paragraph longer than chunk_size
SplitLongParagraph ==
    /\ cpc = "loop"
    /\ i < Len(paragraphs)
    /\ Len(chunks) < MaxChunks
    /\ LET para == paragraphs[i + 1]
           para_len == Len(para)
       IN  /\ ~(current_len + para_len + (IF current # <<>> THEN 2 ELSE 0) <= chunk_size)
           /\ current = <<>>
           /\ chunks' = chunks \o WordWindows(text, SplitWords(para), 0,
                                              chunk_size, chunk_overlap)
           /\ i' = i + 1
    /\ UNCHANGED <<text, chunk_size, chunk_overlap, paragraphs, current,
                   current_len, cpc>>
    /\ UNCHANGED <<splits, file, callVars, sessionVars, ingest, writer>>

\* One iteration, branch: the buffer is emitted and re-seeded with its tail
EmitBuffer ==
    /\ cpc = "loop"
    /\ i < Len(paragraphs)
    /\ Len(chunks) < MaxChunks
    /\ LET para == paragraphs[i + 1]
           para_len == Len(para)
           piece == Join(<<"\n", "\n">>, current)
       IN  /\ ~(current_len + para_len + (IF current # <<>> THEN 2 ELSE 0) <= chunk_size)
           /\ current # <<>>
           /\ chunks' = Append(chunks, LocateSpanInText(text, piece))
           /\ IF chunk_overlap > 0
              THEN LET back_chars == Min({chunk_overlap, Len(piece)})
                       back_text == Suffix(piece, back_chars)
                   IN  /\ current' = <<back_text>>
                       /\ current_len' = Len(back_text)
              ELSE /\ current' = <<>>
                   /\ current_len' = 0
    /\ UNCHANGED <<text, chunk_size, chunk_overlap, paragraphs, i, cpc>>
    /\ UNCHANGED <<splits, file, callVars, sessionVars, ingest, writer>>

\* Loop exit: the last buffer is emitted and chunks is returned
ReturnChunks ==
    /\ cpc = "loop"
    /\ ~(i < Len(paragraphs))
    /\ chunks' = IF current # <<>>
                 THEN Append(chunks, LocateSpanInText(text, Join(<<"\n", "\n">>, current)))
                 ELSE chunks
    /\ cpc' = "done"
    /\ UNCHANGED <<text, chunk_size, chunk_overlap, paragraphs, current,
                   current_len, i>>
    /\ UNCHANGED <<splits, file, callVars, sessionVars, ingest, writer>>

ParagraphLoopStep == AppendParagraph \/ SplitLongParagraph \/ EmitBuffer

NextChunk ==
    \/ AppendParagraph
    \/ SplitLongParagraph
    \/ EmitBuffer
    \/ ReturnChunks

SpecChunk == InitChunk /\ [][NextChunk]_vars

-----------------------------------------------------------------------------
(* rag_prepare.py: chunk_text with a RecursiveCharacterTextSplitter *)

\* text.find(s, cursor), 0 <= cursor
FindFrom(full, span, cursor) ==
    LET hits == {j \in cursor..(Len(full) - Len(span)) :
                    SubSeq(full, j + 1, j + Len(span)) = span}
    IN  IF hits = {} THEN -1 ELSE Min(hits)

\* The pieces split_text can return for text t: pieces of t of at most
\* chunk_size characters
Pieces(t, size) ==
    {p \in {SubSeq(t, a, b) : a \in 1..Len(t), b \in 1..Len(t)} :
        Len(p) \in 1..size}

\* State after splitter.split_text(text), lines 25-36 (and 51-59): the
\* pieces may overlap and may repeat
InitSplitter ==
    /\ text \in Texts
    /\ chunk_size \in 1..MaxChunkSize
    /\ chunk_overlap \in 0..(chunk_size - 1)
    /\ splits \in SeqsUpTo(Pieces(text, chunk_size), MaxSplits)
    /\ paragraphs = <<>>
    /\ chunks = <<>>
    /\ current = <<>>
    /\ current_len = 0
    /\ i = 0
    /\ cpc = "splits"
    /\ IdleCorpus
    /\ IdleRetrieve
    /\ IdleGemini
    /\ IdleSession
    /\ IdleIngest
    /\ IdleWriter

\* Lines 39-45 (and 62-68): one iteration of "for s in splits"; cursor is
\* the end of the chunk located before
LocateSplit ==
    /\ cpc = "splits"
    /\ i < Len(splits)
    /\ LET s == splits[i + 1]
           cursor == IF chunks = <<>> THEN 0 ELSE chunks[Len(chunks)].end
           found == FindFrom(text, s, cursor)
           start == IF found = -1 THEN cursor ELSE found
       IN  chunks' = Append(chunks, [text |-> s, start |-> start, end |-> start + Len(s)])
    /\ i' = i + 1
    /\ UNCHANGED <<text, chunk_size, chunk_overlap, paragraphs, current, current_len,
                   cpc, splits>>
    /\ UNCHANGED <<file, callVars, sessionVars, ingest, writer>>

\* Line 46 (and 69): return chunks
ReturnSplitChunks ==
    /\ cpc = "splits"
    /\ ~(i < Len(splits))
    /\ cpc' = "done"
    /\ UNCHANGED <<text, chunk_size, chunk_overlap, paragraphs, current, current_len,
                   i, chunks, splits>>
    /\ UNCHANGED <<file, callVars, sessionVars, ingest, writer>>

\* chunk_text on either path: a splitter was imported, or none was
InitChunkText == InitSplitter \/ InitChunk

NextChunkText ==
    \/ LocateSplit
    \/ ReturnSplitChunks
    \/ AppendParagraph
    \/ SplitLongParagraph
    \/ EmitBuffer
    \/ ReturnChunks

SpecChunkText == InitChunkText /\ [][NextChunkText]_vars


-----------------------------------------------------------------------------
(* Python and JSON values *)

\* Python scalars of the metadata: None or an int
PyNone == [t |-> "NoneType", n |-> 0]

PyInt(n) == [t |-> "int", n |-> n]

\* JSON scalars: null or a number
JsNull == [t |-> "null", n |-> 0]

JsNum(n) == [t |-> "num", n |-> n]

\* json.dumps / json.loads of a scalar
DumpScalar(v) == IF v.t = "NoneType" THEN JsNull ELSE JsNum(v.n)

LoadScalar(j) == IF j.t = "null" THEN PyNone ELSE PyInt(j.n)

\* json.dumps(..., ensure_ascii=False) of a str: the body of the JSON string.
\* Backslash and the newline are escaped, every other character is literal.
DumpStringUnescaped(s) == s

RECURSIVE DumpString(_)
DumpString(s) ==
    IF s = <<>> THEN <<>>
    ELSE (CASE Head(s) = "\n" -> <<"\\", "n">>
            [] Head(s) = "\\" -> <<"\\", "\\">>
            [] OTHER -> <<Head(s)>>) \o DumpString(Tail(s))

\* json.loads of the body of a JSON string
RECURSIVE LoadString(_)
LoadString(s) ==
    IF s = <<>> THEN <<>>
    ELSE IF Head(s) = "\\" /\ Len(s) >= 2
         THEN <<(IF s[2] = "n" THEN "\n" ELSE s[2])>> \o LoadString(SubSeq(s, 3, Len(s)))
         ELSE <<Head(s)>> \o LoadString(Tail(s))

\* os.path.basename / os.path.abspath of the source paths of the model
SourcePaths == {"veri.txt", "data/veri.txt"}

Basename(path) == "veri.txt"

Abspath(path) == IF path = "veri.txt" THEN "/app/veri.txt" ELSE "/app/data/veri.txt"

NoMetadata == [source |-> "", chunk_index |-> JsNull, start_char |-> JsNull,
               end_char |-> JsNull]

\* One line of the corpus file, as its JSON document:
\*   kind      "object", "array", "string", "number", "null", "invalid"
\*             (text that is no JSON) or "blank" (white space only);
\*   keys      the member names of an object;
\*   id, text, embedding, metadata   the members of an object (text is the
\*             body of a JSON string: escaped; id is "<base>::chunk_<index>");
\*   body      the body of a "string" document, the items of an "array".
ObjectLine(keys, id, txt, embedding, metadata) ==
    [kind |-> "object", keys |-> keys, id |-> id, text |-> txt,
     embedding |-> embedding, metadata |-> metadata, body |-> <<>>]

OtherLine(kind, body) ==
    [kind |-> kind, keys |-> {}, id |-> [base |-> "", index |-> 0], text |-> <<>>,
     embedding |-> <<>>, metadata |-> NoMetadata, body |-> body]

\* json.loads(line.strip()): an exception name, or the Python value
\* (an object becomes a dict, an array a list, a string a str, ...)
JsonLoads(line) ==
    IF line.kind \in {"invalid", "blank"}
    THEN [exc |-> "JSONDecodeError", value |-> line]
    ELSE [exc |-> "none",
          value |-> [line EXCEPT
                       !.kind = CASE line.kind = "object" -> "dict"
                                  [] line.kind = "array" -> "list"
                                  [] line.kind = "string" -> "str"
                                  [] line.kind = "number" -> "int"
                                  [] OTHER -> "NoneType",
                       !.text = LoadString(line.text),
                       !.body = [k \in DOMAIN line.body |-> LoadString(line.body[k])],
                       !.metadata = [source |-> line.metadata.source,
                                     chunk_index |-> LoadScalar(line.metadata.chunk_index),
                                     start_char |-> LoadScalar(line.metadata.start_char),
                                     end_char |-> LoadScalar(line.metadata.end_char)]]]

\* The characters of the two keys the loader looks for
KeyChars(key) ==
    IF key = "embedding" THEN <<"e", "m", "b", "e", "d", "d", "i", "n", "g">>
    ELSE <<"t", "e", "x", "t">>

\* Python's  key in rec : "True", "False" or the exception raised
Contains(key, rec) ==
    CASE rec.kind = "dict" -> IF key \in rec.keys THEN "True" ELSE "False"
      [] rec.kind = "list" ->
            IF \E k \in DOMAIN rec.body : rec.body[k] = KeyChars(key)
            THEN "True" ELSE "False"
      [] rec.kind = "str" ->
            IF Find(rec.body[1], KeyChars(key)) # -1 THEN "True" ELSE "False"
      [] OTHER -> "TypeError"

\* float32 of a float holding an integer: exact up to 2^24, then rounded to
\* the nearest even integer (ties to the even mantissa), up to 2^25
Float32(x) ==
    LET a == IF x < 0 THEN -x ELSE x
        r == IF a <= 16777216 THEN a
             ELSE IF a % 2 = 0 THEN a
             ELSE IF ((a - 1) \div 2) % 2 = 0 THEN a - 1 ELSE a + 1
    IN  IF x < 0 THEN -r ELSE r

NpArrayRaggedDropped(vectors) ==
    [exc |-> "none",
     rows |-> SelectSeq([r \in DOMAIN vectors |->
                           [c \in DOMAIN vectors[r] |-> Float32(vectors[r][c])]],
                        LAMBDA v : Len(v) = Len(vectors[1]))]

\* np.array(vectors, dtype=np.float32): the matrix, or ValueError when the
\* rows differ in length
NpArray(vectors) ==
    IF \E a, b \in DOMAIN vectors : Len(vectors[a]) # Len(vectors[b])
    THEN [exc |-> "ValueError", rows |-> <<>>]
    ELSE [exc |-> "none",
          rows |-> [r \in DOMAIN vectors |->
                      [c \in DOMAIN vectors[r] |-> Float32(vectors[r][c])]]]

\* ndarray.size of a matrix held as its sequence of rows
Size(rows) == IF rows = <<>> THEN 0 ELSE Len(rows) * Len(rows[1])

-----------------------------------------------------------------------------
(* rag_prepare.py: write_jsonl *)

\* The record of chunk i (0-based), as the line json.dumps makes of it
RecordLine(chunk, vec, idx, source_path) ==
    ObjectLine({"id", "text", "embedding", "metadata"},
               [base |-> Basename(source_path), index |-> idx],
               DumpString(chunk.text),
               vec,
               [source |-> Abspath(source_path),
                chunk_index |-> JsNum(idx),
                start_char |-> DumpScalar(chunk.start),
                end_char |-> DumpScalar(chunk.end)])

\* write_jsonl(chunks, vectors, output_path, source_path): the exception
\* raised, and the file it leaves
WriteJsonlResult(f, cs, vectors, source_path) ==
    IF Len(cs) # Len(vectors)
    THEN [exc |-> "ValueError", file |-> f]
    ELSE [exc |-> "none",
          file |-> [exists |-> TRUE,
                    lines |-> [k \in 1..Len(cs) |->
                                 RecordLine(cs[k], vectors[k], k - 1, source_path)]]]

-----------------------------------------------------------------------------
(* rag_chatbot.py: load_embeddings_and_chunks *)

\* The for loop over the lines: the exception that leaves it, the vectors and
\* records collected, and the number of st.error warnings
RECURSIVE LoadLines(_, _, _, _)
LoadLines(lines, vectors, recs, errors) ==
    IF lines = <<>>
    THEN [exc |-> "none", vectors |-> vectors, chunks |-> recs, errors |-> errors]
    ELSE LET parsed == JsonLoads(Head(lines))
             rec == parsed.value
             hasEmbedding == Contains("embedding", rec)
             hasText == Contains("text", rec)
         IN  IF parsed.exc = "JSONDecodeError"
             THEN LoadLines(Tail(lines), vectors, recs, errors + 1)
             ELSE IF hasEmbedding = "TypeError"
             THEN [exc |-> "TypeError", vectors |-> vectors, chunks |-> recs,
                   errors |-> errors]
             ELSE IF hasEmbedding = "True" /\ hasText = "True"
             THEN IF rec.kind = "dict"
                  THEN LoadLines(Tail(lines), Append(vectors, rec.embedding),
                                 Append(recs, rec), errors)
                  \* rec["embedding"] on a list or a str
                  ELSE [exc |-> "TypeError", vectors |-> vectors, chunks |-> recs,
                        errors |-> errors]
             ELSE LoadLines(Tail(lines), vectors, recs, errors)

LoadFailure(errors) ==
    [status |-> "ValueError", emb |-> <<>>, chunks |-> <<>>, errors |-> errors]

\* load_embeddings_and_chunks(path) on file f: status "ok" and the pair
\* (emb, chunks), or the ValueError every failure is turned into
LoadEmbeddingsAndChunks(f) ==
    IF ~f.exists THEN LoadFailure(0)
    ELSE LET r == LoadLines(f.lines, <<>>, <<>>, 0)
             emb == NpArray(r.vectors)
         IN  IF r.exc # "none" THEN LoadFailure(r.errors)
             ELSE IF r.vectors = <<>> THEN LoadFailure(r.errors)
             ELSE IF emb.exc # "none" THEN LoadFailure(r.errors)
             ELSE [status |-> "ok", emb |-> emb.rows, chunks |-> r.chunks,
                   errors |-> r.errors]


-----------------------------------------------------------------------------
(* The corpus file written and loaded *)

\* Arguments of write_jsonl: chunk dicts (start/end None when the key is
\* missing) and embedding vectors of the corpus dimension
SampleChunks ==
    {[text |-> <<"a">>, start |-> PyInt(0), end |-> PyInt(1)],
     [text |-> <<"a", "\n", "b">>, start |-> PyInt(2), end |-> PyInt(5)],
     [text |-> <<"\\", "n">>, start |-> PyNone, end |-> PyNone]}

SampleVectors == {<<1, 0>>, <<0, 2>>, <<16777217, -1>>}

\* Lines of a corpus file that are valid records
ValidLines ==
    {RecordLine([text |-> <<"a">>, start |-> PyInt(0), end |-> PyInt(1)],
                <<1, 0>>, 0, "veri.txt"),
     RecordLine([text |-> <<"a", "\n", "b">>, start |-> PyInt(2), end |-> PyInt(5)],
                <<0, 2>>, 1, "veri.txt")}

\* Lines that are no valid record: no JSON, blank, a JSON value that is no
\* object, an object lacking "embedding" or "text"
BadLines ==
    {OtherLine("invalid", <<>>),
     OtherLine("blank", <<>>),
     OtherLine("number", <<>>),
     OtherLine("null", <<>>),
     OtherLine("array", <<>>),
     OtherLine("array", <<KeyChars("embedding"), KeyChars("text")>>),
     OtherLine("string", <<<<"a">>>>),
     OtherLine("string", <<KeyChars("embedding") \o <<" ">> \o KeyChars("text")>>),
     ObjectLine({}, [base |-> "", index |-> 0], <<>>, <<>>, NoMetadata),
     ObjectLine({"id", "text"}, [base |-> "veri.txt", index |-> 0], <<"a">>, <<>>,
                NoMetadata),
     ObjectLine({"id", "embedding"}, [base |-> "veri.txt", index |-> 0], <<>>,
                <<1, 0>>, NoMetadata)}

\* Records the loader accepts whose embedding has another length: one
\* component, none
OddLines ==
    {ObjectLine({"text", "embedding"}, [base |-> "", index |-> 0], <<"a">>, <<1>>,
                NoMetadata),
     ObjectLine({"text", "embedding"}, [base |-> "", index |-> 0], <<"a">>, <<>>,
                NoMetadata)}

CorpusFiles ==
    {NoFile} \cup {[exists |-> TRUE, lines |-> ls] :
                     ls \in SeqsUpTo(ValidLines \cup BadLines \cup OddLines, MaxLines)}

\* load_embeddings_and_chunks applied to every corpus file of the model
InitLoad ==
    /\ file \in CorpusFiles
    /\ write_call = NoWrite
    /\ load_call = NoLoad
    /\ IdleChunk
    /\ IdleRetrieve
    /\ IdleGemini
    /\ IdleSession
    /\ IdleIngest
    /\ IdleWriter

\* A call load_embeddings_and_chunks("chunks.jsonl")
LoadCorpus ==
    /\ ~load_call.called
    /\ load_call' = [called |-> TRUE] @@ LoadEmbeddingsAndChunks(file)
    /\ UNCHANGED <<file, write_call, chunkVars, ingest, writer, retrieve_call, gemini_call, sessionVars>>

NextLoad == LoadCorpus

SpecLoad == InitLoad /\ [][NextLoad]_vars

\* write_jsonl then load: the output path holds no file or the corpus of an
\* earlier run
StaleFile ==
    [exists |-> TRUE,
     lines |-> <<RecordLine([text |-> <<"a">>, start |-> PyInt(0), end |-> PyInt(1)],
                            <<0, 2>>, 0, "data/veri.txt")>>]

InitRoundTrip ==
    /\ file \in {NoFile, StaleFile}
    /\ write_call = NoWrite
    /\ load_call = NoLoad
    /\ IdleChunk
    /\ IdleRetrieve
    /\ IdleGemini
    /\ IdleSession
    /\ IdleIngest
    /\ IdleWriter

\* A call write_jsonl(cs, vectors, "chunks.jsonl", source_path)
WriteJsonl ==
    /\ ~write_call.called
    /\ ~load_call.called
    /\ \E cs \in SeqsUpTo(SampleChunks, MaxRecords),
          vectors \in SeqsUpTo(SampleVectors, MaxRecords),
          source_path \in SourcePaths :
          LET r == WriteJsonlResult(file, cs, vectors, source_path)
          IN  /\ file' = r.file
              /\ write_call' = [called |-> TRUE, chunks |-> cs, vectors |-> vectors,
                                source_path |-> source_path, exc |-> r.exc]
    /\ UNCHANGED <<load_call, chunkVars, ingest, writer, retrieve_call, gemini_call, sessionVars>>

NextRoundTrip ==
    \/ WriteJsonl
    \/ LoadCorpus

SpecRoundTrip == InitRoundTrip /\ [][NextRoundTrip]_vars


-----------------------------------------------------------------------------
(* rag_chatbot.py: normalize_rows and retrieve_top_k *)

\* A numpy array argument is [none, rows] (None, or the rows of the matrix);
\* a query vector is [none, v].  Components are integers.  A cosine
\* similarity dot / sqrt(n2) is held exactly, as its sign and the reduced
\* fraction num/den of its square, so that scores are compared and tested
\* against 1.0 as real numbers.

RECURSIVE Gcd(_, _)
Gcd(a, b) == IF b = 0 THEN a ELSE Gcd(b, a % b)

RECURSIVE SumSeq(_)
SumSeq(s) == IF s = <<>> THEN 0 ELSE Head(s) + SumSeq(Tail(s))

Dot(u, v) == SumSeq([k \in DOMAIN u |-> u[k] * v[k]])

NormSq(v) == Dot(v, v)

\* dot / sqrt(n2), for n2 > 0
Score(dot, n2) ==
    IF dot = 0 THEN [sign |-> 0, num |-> 0, den |-> 1]
    ELSE LET g == Gcd(dot * dot, n2)
         IN  [sign |-> IF dot > 0 THEN 1 ELSE -1,
              num |-> (dot * dot) \div g, den |-> n2 \div g]

One == [sign |-> 1, num |-> 1, den |-> 1]

Zero == [sign |-> 0, num |-> 0, den |-> 1]

\* a >= b for two scores
ScoreGeq(a, b) ==
    CASE a.sign > b.sign -> TRUE
      [] a.sign < b.sign -> FALSE
      [] a.sign >= 0 -> a.num * b.den >= b.num * a.den
      [] OTHER -> a.num * b.den <= b.num * a.den

NormalizeRowsUnscaled(x) == [r \in DOMAIN x |-> [v |-> x[r], n2 |-> 1]]

\* normalize_rows(x): each row with the square of the norm it is divided by
\* (a zero norm is replaced by 1.0)
NormalizeRows(x) ==
    [r \in DOMAIN x |->
        [v |-> x[r], n2 |-> IF NormSq(x[r]) = 0 THEN 1 ELSE NormSq(x[r])]]

\* (q @ d.T).flatten() for the normalised query q (one row) and rows d
Sims(q, d) == [r \in DOMAIN d |-> Score(Dot(q[1].v, d[r].v), q[1].n2 * d[r].n2)]

\* The permutations of the 0-based indices 0..n-1
Perms(n) == {p \in [1..n -> 0..(n - 1)] : \A a, b \in 1..n : a # b => p[a] # p[b]}

ArgsortAscending(sims) ==
    {p \in Perms(Len(sims)) :
        \A j \in 1..(Len(sims) - 1) : ScoreGeq(sims[p[j + 1] + 1], sims[p[j] + 1])}

\* np.argsort(-sims): the index orders it can return. The default sort kind
\* is not stable: equal scores come in any order.
Argsort(sims) ==
    {p \in Perms(Len(sims)) :
        \A j \in 1..(Len(sims) - 1) : ScoreGeq(sims[p[j] + 1], sims[p[j + 1] + 1])}

\* idx[:top_k], top_k >= 0
Take(idx, top_k) == SubSeq(idx, 1, Min({top_k, Len(idx)}))

Raised(exc) == [exc |-> exc, sims |-> <<>>, results |-> <<>>]

\* retrieve_top_k(query_vec, doc_embeddings, chunks, top_k): the outcomes it
\* can have, each the exception raised, the similarities and the list returned
RetrieveTopK(query_vec, doc_embeddings, cs, top_k) ==
    IF query_vec.none THEN {Raised("none")}
    ELSE IF doc_embeddings.none THEN {Raised("AttributeError")}
    ELSE IF Size(doc_embeddings.rows) = 0 THEN {Raised("none")}
    ELSE LET q == NormalizeRows(<<query_vec.v>>)
             d == NormalizeRows(doc_embeddings.rows)
         IN  IF Len(query_vec.v) # Len(doc_embeddings.rows[1])
             THEN {Raised("ValueError")}
             ELSE LET sims == Sims(q, d)
                  IN  {IF \E j \in DOMAIN Take(idx, top_k) : Take(idx, top_k)[j] + 1 > Len(cs)
                       THEN Raised("IndexError")
                       ELSE [exc |-> "none", sims |-> sims,
                             results |-> [j \in DOMAIN Take(idx, top_k) |->
                                 LET n == Take(idx, top_k)[j] + 1
                                 IN  [score |-> sims[n]] @@ cs[n]]]
                        : idx \in Argsort(sims)}

\* The embedding space of the model: two dimensions, with the zero vector,
\* parallel, opposite and orthogonal vectors
Vectors == {<<0, 0>>, <<1, 0>>, <<0, 1>>, <<1, 1>>, <<-1, 0>>, <<2, 0>>}

\* The query arguments: None, the empty vector, the vectors
QueryArgs == {NoVector, [none |-> FALSE, v |-> <<>>]}
                 \cup {[none |-> FALSE, v |-> v] : v \in Vectors}

\* The matrix arguments: None, the matrices of up to MaxDocs rows
MatrixArgs == {NoArray} \cup {[none |-> FALSE, rows |-> rows] :
                                rows \in SeqsUpTo(Vectors, MaxDocs)}

\* The records that go with the rows of a matrix, as the loader returns them
RecordsOf(rows) ==
    [k \in DOMAIN rows |->
        JsonLoads(RecordLine([text |-> <<"a">>, start |-> PyInt(k - 1), end |-> PyInt(k)],
                             rows[k], k - 1, "veri.txt")).value]

InitRetrieve ==
    /\ \E q \in QueryArgs, m \in MatrixArgs, k \in 0..MaxK :
          retrieve_call = [NoRetrieve EXCEPT !.query_vec = q, !.doc_embeddings = m,
                                             !.chunks = RecordsOf(m.rows), !.top_k = k]
    /\ IdleChunk
    /\ IdleCorpus
    /\ IdleGemini
    /\ IdleSession
    /\ IdleIngest
    /\ IdleWriter

RetrieveCall ==
    /\ ~retrieve_call.called
    /\ \E r \in RetrieveTopK(retrieve_call.query_vec, retrieve_call.doc_embeddings,
                             retrieve_call.chunks, retrieve_call.top_k) :
          retrieve_call' = [retrieve_call EXCEPT !.called = TRUE, !.exc = r.exc,
                                                 !.sims = r.sims, !.results = r.results]
    /\ UNCHANGED <<chunkVars, ingest, writer, file, write_call, load_call, gemini_call, sessionVars>>

NextRetrieve == RetrieveCall

SpecRetrieve == InitRetrieve /\ [][NextRetrieve]_vars


-----------------------------------------------------------------------------
(* rag_chatbot.py: call_gemini *)

\* The three canned messages (their Turkish letters written in ASCII)
ServiceUnavailable ==
    "Sistem su anda kullanilamiyor. Lutfen daha sonra tekrar deneyin."

AnswerNotFound ==
    "Uzgunum, bu konuda yeterli bilgi bulamadim. Mulholland Drive'in baska bir yonu hakkinda soru sorabilir misiniz? Ornegin karakterler, semboller veya film sahneleri hakkinda sorular sorabilirsiniz."

AnalysisIncomplete ==
    "Analiz tamamlanamadi. Lutfen sorunuzu farkli sekilde ifade edin."

\* What the provider answers: resp.text, or the text of the first part
ProviderText == "<resp.text>"

ProviderPartText == "<resp.candidates[0].content.parts[0].text>"

Providers ==
    [sdk : {"ok", "ImportError"}, api_key : {"None", "", "key"},
     configure : {"ok", "raises"}, generate : {"ok", "raises"},
     text : {"text", "empty", "missing", "raises"},
     parts : {"text", "IndexError", "AttributeError", "TypeError"}]

Returns(value) == [exc |-> "none", value |-> value]

\* The body of the second try block, lines 134-147: what it returns, or the
\* exception that leaves it
GenerateContent(pr) ==
    IF pr.configure = "raises" \/ pr.generate = "raises"
    THEN [exc |-> "Exception", value |-> "<provider error text>"]
    ELSE CASE pr.text = "text" -> Returns(ProviderText)
           \* hasattr lets every exception but AttributeError through
           [] pr.text = "raises" -> [exc |-> "ValueError", value |-> "<provider error text>"]
           [] OTHER ->
                CASE pr.parts = "text" -> Returns(ProviderPartText)
                  [] pr.parts \in {"IndexError", "AttributeError"} ->
                        Returns(AnalysisIncomplete)
                  [] OTHER -> [exc |-> "TypeError", value |-> "<provider error text>"]

CallGeminiUncaught(pr) ==
    IF pr.sdk = "ImportError" THEN Returns(ServiceUnavailable)
    ELSE IF pr.api_key # "key" THEN Returns(ServiceUnavailable)
    ELSE GenerateContent(pr)

\* call_gemini(system_prompt, user_prompt) against provider pr
CallGemini(pr) ==
    IF pr.sdk = "ImportError" THEN Returns(ServiceUnavailable)
    ELSE IF pr.api_key # "key" THEN Returns(ServiceUnavailable)
    ELSE LET r == GenerateContent(pr)
         IN  IF r.exc # "none" THEN Returns(AnswerNotFound) ELSE r

InitGemini ==
    /\ \E pr \in Providers : gemini_call = [NoGemini EXCEPT !.provider = pr]
    /\ IdleChunk
    /\ IdleCorpus
    /\ IdleRetrieve
    /\ IdleSession
    /\ IdleIngest
    /\ IdleWriter

GeminiCall ==
    /\ ~gemini_call.called
    /\ LET r == CallGemini(gemini_call.provider)
       IN  gemini_call' = [gemini_call EXCEPT !.called = TRUE, !.exc = r.exc,
                                              !.value = r.value]
    /\ UNCHANGED <<chunkVars, ingest, writer, file, write_call, load_call, retrieve_call, sessionVars>>

NextGemini == GeminiCall

SpecGemini == InitGemini /\ [][NextGemini]_vars


-----------------------------------------------------------------------------
(* rag_chatbot.py: build_system_prompt *)

PromptBudget == 600

\* text[:600] + " ..." for a text longer than 600 characters
Truncate(t) ==
    IF Len(t) > PromptBudget THEN SubSeq(t, 1, PromptBudget) \o <<" ", "...">> ELSE t

\* build_system_prompt(context_docs): the context block of the prompt, and
\* whether it is the generic prompt of an empty context
BuildSystemPrompt(context_docs) ==
    IF context_docs = <<>> THEN <<"generic">>
    ELSE <<"context">> \o
         Join(<<" ">>, [k \in DOMAIN context_docs |-> Truncate(context_docs[k].text)])

-----------------------------------------------------------------------------
(* rag_chatbot.py: main, one script run per user interaction *)

TopK == 5

\* The corpus files of the session: a few lines of each kind
SessionLines ==
    ValidLines \cup
    {OtherLine("invalid", <<>>),
     OtherLine("null", <<>>),
     ObjectLine({"text", "embedding"}, [base |-> "", index |-> 0], <<"a">>, <<>>,
                NoMetadata)}

SessionFiles ==
    {NoFile} \cup {[exists |-> TRUE, lines |-> ls] :
                     ls \in SeqsUpTo(SessionLines, MaxSessionLines)}

\* What the user types: nothing, blanks, a question
Questions == {<<>>, <<" ">>, <<"a">>}

\* What the embedder makes of a question: a vector of the corpus dimension,
\* or of another one (another model)
QueryVectors == {<<0, 0>>, <<1, 0>>, <<0, 1>>, <<1>>}

\* load_embeddings_and_chunks under st.cache_data: a returned value is
\* cached, an exception is not
CachedLoad(f, cache) ==
    IF cache.cached THEN [result |-> cache.value, cache |-> cache]
    ELSE LET r == LoadEmbeddingsAndChunks(f)
         IN  [result |-> r,
              cache |-> IF r.status = "ok" THEN [cached |-> TRUE, value |-> r]
                        ELSE cache]

CorpusStepFailOpen(ss, f, cache) ==
    IF "doc_embeddings" \in ss.keys
    THEN [stop |-> FALSE, shown |-> "", session_state |-> ss, cache |-> cache]
    ELSE LET c == CachedLoad(f, cache)
         IN  [stop |-> FALSE, shown |-> "",
              session_state |-> [ss EXCEPT !.keys = @ \cup {"doc_embeddings", "chunks"},
                                           !.doc_embeddings = c.result.emb,
                                           !.chunks = c.result.chunks],
              cache |-> c.cache]

\* Lines 512-523: the corpus is loaded into the session state unless it is
\* there; st.stop() when the file is missing or the load raises
CorpusStep(ss, f, cache) ==
    IF "doc_embeddings" \in ss.keys
    THEN [stop |-> FALSE, shown |-> "", session_state |-> ss, cache |-> cache]
    ELSE IF f.exists
    THEN LET c == CachedLoad(f, cache)
         IN  IF c.result.status = "ok"
             THEN [stop |-> FALSE, shown |-> "",
                   session_state |-> [ss EXCEPT
                        !.keys = @ \cup {"doc_embeddings", "chunks"},
                        !.doc_embeddings = c.result.emb,
                        !.chunks = c.result.chunks],
                   cache |-> c.cache]
             ELSE [stop |-> TRUE, shown |-> "prepare-error", session_state |-> ss,
                   cache |-> cache]
    ELSE [stop |-> TRUE, shown |-> "database-missing", session_state |-> ss,
          cache |-> cache]

\* get_embedder() under st.cache_resource, then embed_query(text): the
\* exception that leaves embed_query, the vector or None it returns, and the
\* cache afterwards. Both ImportErrors make get_embedder return (and cache)
\* None; any other exception of the constructor leaves get_embedder, which
\* embed_query calls outside its try.
EmbedQuery(ec) ==
    LET made == IF ec = "unset" THEN {"embedder", "None", "raises"} ELSE {ec}
    IN  UNION {
          CASE m = "raises" ->
                 {[exc |-> "Exception", vec |-> NoVector, cache |-> ec]}
            [] m = "None" ->
                 {[exc |-> "none", vec |-> NoVector, cache |-> "None"]}
            [] OTHER ->
                 {[exc |-> "none", vec |-> NoVector, cache |-> "embedder"]}
                 \cup {[exc |-> "none", vec |-> [none |-> FALSE, v |-> v],
                        cache |-> "embedder"] : v \in QueryVectors}
          : m \in made}

\* The number of embedder.embed_query calls in an embed_query with outcome e
\* (line 90; none when get_embedder raised or returned None)
EmbedderCalls(e) == IF e.exc = "none" /\ e.cache = "embedder" THEN 1 ELSE 0

GenerateCallsRetried(pr) ==
    IF pr.sdk = "ok" /\ pr.api_key = "key" /\ pr.configure = "ok"
    THEN (IF pr.generate = "raises" THEN 2 ELSE 1)
    ELSE 0

\* The number of model.generate_content calls in a call_gemini against
\* provider pr (line 138, reached once after the import, the key test and
\* configure)
GenerateCalls(pr) ==
    IF pr.sdk = "ok" /\ pr.api_key = "key" /\ pr.configure = "ok" THEN 1 ELSE 0

QueryExceptMissing(exc) == "uncaught"

\* "except Exception" around the handling of a question, line 613
QueryExcept(exc) == "caught"

\* The run ends (the script returns or st.stop() ends it)
EndRun(r) == [r EXCEPT !.pc = "done"]

Waiting == run.pc \in {"idle", "done"}

\* The run ends at an exception: the except clause shows the canned answer,
\* or the exception leaves main
Raise(exc) ==
    IF QueryExcept(exc) = "caught"
    THEN /\ run' = EndRun(run)
         /\ shown' = "canned-answer"
         /\ history' = [history EXCEPT !.prev = "exception", !.failed = TRUE]
    ELSE /\ run' = [run EXCEPT !.pc = "crashed"]
         /\ history' = [history EXCEPT !.prev = "exception", !.failed = TRUE]
         /\ UNCHANGED shown

InitSession ==
    /\ file \in SessionFiles
    /\ api_key \in {"None", "", "key"}
    /\ cache_data = EmptyCache
    /\ embedder_cache = "unset"
    /\ session_state = EmptySessionState
    /\ run = IdleRun
    /\ shown = ""
    /\ history = NoHistory
    /\ IdleChunk
    /\ write_call = NoWrite
    /\ load_call = NoLoad
    /\ IdleRetrieve
    /\ IdleGemini
    /\ IdleIngest
    /\ IdleWriter

\* A user interaction reruns the script from the top: the Sor button with
\* the text of the text area, or an example button (lines 541-542, 545-555)
Rerun ==
    /\ Waiting
    /\ \E ask \in BOOLEAN, q \in Questions :
          run' = [IdleRun EXCEPT !.pc = "load", !.ask_button = ask, !.user_question = q]
    /\ shown' = ""
    /\ UNCHANGED <<api_key, cache_data, embedder_cache, session_state, history>>
    /\ UNCHANGED <<chunkVars, ingest, writer, file, callVars>>

\* An example button was clicked: the run stores the example (line 542)
ExampleButton ==
    /\ Waiting
    /\ run' = [IdleRun EXCEPT !.pc = "load", !.user_question = <<"a">>]
    /\ session_state' = [session_state EXCEPT !.keys = @ \cup {"user_question"},
                                              !.user_question = <<"a">>]
    /\ shown' = ""
    /\ UNCHANGED <<api_key, cache_data, embedder_cache, history>>
    /\ UNCHANGED <<chunkVars, ingest, writer, file, callVars>>

\* The browser page is reloaded: a new session of the same process
NewSession ==
    /\ run.pc = "done"
    /\ session_state' = EmptySessionState
    /\ run' = IdleRun
    /\ shown' = ""
    /\ history' = NoHistory
    /\ UNCHANGED <<api_key, cache_data, embedder_cache>>
    /\ UNCHANGED <<chunkVars, ingest, writer, file, callVars>>

\* Lines 512-523
LoadStep ==
    /\ run.pc = "load"
    /\ LET c == CorpusStep(session_state, file, cache_data)
       IN  /\ session_state' = c.session_state
           /\ cache_data' = c.cache
           /\ shown' = c.shown
           /\ run' = IF c.stop THEN EndRun(run) ELSE [run EXCEPT !.pc = "ask"]
    /\ UNCHANGED <<api_key, embedder_cache, history>>
    /\ UNCHANGED <<chunkVars, ingest, writer, file, callVars>>

\* Lines 558-563: the gates before a question is handled
AskGate ==
    /\ run.pc = "ask"
    /\ IF ~run.ask_button
       THEN run' = EndRun(run) /\ UNCHANGED shown
       ELSE IF Strip(run.user_question) = <<>>
       THEN run' = EndRun(run) /\ shown' = "empty-question"
       ELSE IF api_key # "key"
       THEN run' = EndRun(run) /\ shown' = "unavailable"
       ELSE run' = [run EXCEPT !.pc = "embed"] /\ UNCHANGED shown
    /\ UNCHANGED <<api_key, cache_data, embedder_cache, session_state, history>>
    /\ UNCHANGED <<chunkVars, ingest, writer, file, callVars>>

\* Lines 573-577
EmbedStep ==
    /\ run.pc = "embed"
    /\ \E e \in EmbedQuery(embedder_cache) :
          /\ embedder_cache' = e.cache
          /\ IF e.exc # "none"
             THEN Raise(e.exc)
             ELSE IF e.vec.none
             THEN /\ run' = EndRun([run EXCEPT !.steps = Append(@, "embed"),
                                                 !.calls.embedder = @ + EmbedderCalls(e)])
                  /\ shown' = "embed-error"
                  /\ history' = [prev |-> "embed-failure", failed |-> TRUE,
                                  served |-> TRUE]
             ELSE /\ run' = [run EXCEPT !.pc = "retrieve", !.query_vec = e.vec,
                                        !.steps = Append(@, "embed"),
                                        !.calls.embedder = @ + EmbedderCalls(e)]
                  /\ history' = [history EXCEPT !.served = TRUE]
                  /\ UNCHANGED shown
    /\ UNCHANGED <<api_key, cache_data, session_state>>
    /\ UNCHANGED <<chunkVars, ingest, writer, file, callVars>>

\* Lines 581-590
RetrieveStep ==
    /\ run.pc = "retrieve"
    /\ \E r \in RetrieveTopK(run.query_vec,
                             [none |-> FALSE, rows |-> session_state.doc_embeddings],
                             session_state.chunks, TopK) :
          IF r.exc # "none"
          THEN Raise(r.exc)
          ELSE IF r.results = <<>>
          THEN /\ run' = EndRun([run EXCEPT !.steps = Append(@, "retrieve")])
               /\ shown' = "no-information"
               /\ history' = [history EXCEPT !.prev = "no-results", !.failed = TRUE]
          ELSE /\ run' = [run EXCEPT !.pc = "build", !.results = r.results,
                                     !.steps = Append(@, "retrieve")]
               /\ UNCHANGED <<shown, history>>
    /\ UNCHANGED <<api_key, cache_data, embedder_cache, session_state>>
    /\ UNCHANGED <<chunkVars, ingest, writer, file, callVars>>

\* Line 595
BuildStep ==
    /\ run.pc = "build"
    /\ run' = [run EXCEPT !.pc = "generate",
                          !.system_prompt = BuildSystemPrompt(run.results),
                          !.steps = Append(@, "build")]
    /\ UNCHANGED <<api_key, cache_data, embedder_cache, session_state, shown, history>>
    /\ UNCHANGED <<chunkVars, ingest, writer, file, callVars>>

\* Lines 600-611
GenerateStep ==
    /\ run.pc = "generate"
    /\ \E pr \in Providers :
          /\ pr.api_key = api_key
          /\ LET g == CallGemini(pr)
             IN  IF g.exc # "none"
                 THEN Raise(g.exc)
                 ELSE /\ run' = EndRun([run EXCEPT !.answer = g.value,
                                                   !.steps = Append(@, "generate"),
                                                   !.calls.provider = @ + GenerateCalls(pr)])
                      /\ shown' = "answer"
                      /\ history' =
                            IF g.value \in {ProviderText, ProviderPartText}
                            THEN [history EXCEPT !.prev = "answered"]
                            ELSE [history EXCEPT !.prev = "generator-failure",
                                                 !.failed = TRUE]
    /\ UNCHANGED <<api_key, cache_data, embedder_cache, session_state>>
    /\ UNCHANGED <<chunkVars, ingest, writer, file, callVars>>

Next ==
    \/ Rerun
    \/ ExampleButton
    \/ NewSession
    \/ LoadStep
    \/ AskGate
    \/ EmbedStep
    \/ RetrieveStep
    \/ BuildStep
    \/ GenerateStep

Spec == InitSession /\ [][Next]_vars


-----------------------------------------------------------------------------
(* rag_prepare.py: main, one ingestion run (chunk_text on its fallback path) *)

\* The chunk dicts write_jsonl receives
AsDicts(cs) ==
    [k \in DOMAIN cs |->
        [text |-> cs[k].text, start |-> PyInt(cs[k].start), end |-> PyInt(cs[k].end)]]

\* embedder.embed_documents(texts): it raises, or returns vectors, one per
\* text by its contract, one more or one less when it breaks it
EmbedDocuments(n) ==
    {[exc |-> "Exception", vectors |-> <<>>]}
    \cup {[exc |-> "none", vectors |-> [k \in 1..m |-> <<1, 0>>]] :
            m \in {n, n + 1} \cup (IF n > 0 THEN {n - 1} ELSE {})}

\* An uncaught exception ends the process with status 1; return 0 ends it
\* with SystemExit(0)
Exit(st, code, error) == [st EXCEPT !.pc = "exited", !.exit_code = code, !.error = error]

InitIngest ==
    /\ \E ex \in BOOLEAN, t \in Texts, size \in 1..MaxChunkSize, path \in SourcePaths :
          \E overlap \in 0..(size - 1) :
             ingest = [NoIngest EXCEPT !.pc = "read", !.input_exists = ex,
                                       !.input_text = IF ex THEN t ELSE <<>>,
                                       !.input = path, !.chunk_size = size,
                                       !.chunk_overlap = overlap]
    /\ file \in {NoFile, StaleFile}
    /\ write_call = NoWrite
    /\ load_call = NoLoad
    /\ IdleChunk
    /\ IdleRetrieve
    /\ IdleGemini
    /\ IdleSession
    /\ IdleWriter

\* Line 213, read_text_file, and the entry of chunk_text (lines 71-78)
ReadTextFile ==
    /\ ingest.pc = "read"
    /\ IF ~ingest.input_exists
       THEN /\ ingest' = Exit(ingest, 1, "FileNotFoundError")
            /\ UNCHANGED chunkVars
       ELSE /\ ingest' = [ingest EXCEPT !.pc = "chunk"]
            /\ text' = ingest.input_text
            /\ chunk_size' = ingest.chunk_size
            /\ chunk_overlap' = ingest.chunk_overlap
            /\ paragraphs' = Paragraphs(ingest.input_text)
            /\ chunks' = <<>>
            /\ current' = <<>>
            /\ current_len' = 0
            /\ i' = 0
            /\ cpc' = "loop"
            /\ splits' = <<>>
    /\ UNCHANGED <<file, callVars, sessionVars, writer>>

\* Line 215, load_embedder
LoadEmbedder ==
    /\ ingest.pc = "chunk"
    /\ cpc = "done"
    /\ \/ ingest' = [ingest EXCEPT !.pc = "embed", !.embedder = "ok"]
       \/ ingest' = Exit([ingest EXCEPT !.embedder = "unobtainable"], 1, "RuntimeError")
    /\ UNCHANGED <<chunkVars, file, callVars, sessionVars, writer>>

\* Line 216, embed_chunks
EmbedChunks ==
    /\ ingest.pc = "embed"
    /\ \E e \in EmbedDocuments(Len(chunks)) :
          ingest' = IF e.exc # "none" THEN Exit(ingest, 1, e.exc)
                    ELSE [ingest EXCEPT !.pc = "write", !.vectors = e.vectors]
    /\ UNCHANGED <<chunkVars, file, callVars, sessionVars, writer>>

\* Lines 217-222, write_jsonl and return 0
WriteAndReturn ==
    /\ ingest.pc = "write"
    /\ LET w == WriteJsonlResult(file, AsDicts(chunks), ingest.vectors, ingest.input)
       IN  /\ file' = w.file
           /\ ingest' = IF w.exc # "none" THEN Exit(ingest, 1, w.exc)
                        ELSE Exit(ingest, 0, "none")
    /\ UNCHANGED <<chunkVars, callVars, sessionVars, writer>>

NextIngest ==
    \/ ReadTextFile
    \/ AppendParagraph
    \/ SplitLongParagraph
    \/ EmitBuffer
    \/ ReturnChunks
    \/ LoadEmbedder
    \/ EmbedChunks
    \/ WriteAndReturn

SpecIngest == InitIngest /\ [][NextIngest]_vars

-----------------------------------------------------------------------------
(* rag_prepare.py: write_jsonl step by step, while rag_chatbot.py loads *)

\* The piece of a record line that a flush of the full buffer leaves at the
\* end of the file: no JSON value
CutLine == OtherLine("invalid", <<>>)

\* The corpus file a re-ingestion finds: one written by an earlier run
PreviousFiles ==
    {StaleFile,
     [exists |-> TRUE,
      lines |-> [k \in 1..2 |->
                   RecordLine([text |-> <<"a">>, start |-> PyInt(k - 1), end |-> PyInt(k)],
                              <<k, 0>>, k - 1, "data/veri.txt")]]}

\* The lines write_jsonl writes when it writes them all
TargetLines(w) ==
    [k \in 1..Len(w.chunks) |->
        RecordLine(w.chunks[k], w.vectors[k], k - 1, w.source_path)]

\* The number of whole record lines in the file being written
Flushed == Cardinality({k \in DOMAIN file.lines : file.lines[k] # CutLine})

InitOverwrite ==
    /\ file \in PreviousFiles
    /\ \E cs \in SeqsUpTo(SampleChunks, MaxRecords),
          vectors \in SeqsUpTo(SampleVectors, MaxRecords),
          source_path \in SourcePaths :
          writer = [NoWriter EXCEPT !.pc = "start", !.chunks = cs, !.vectors = vectors,
                                    !.source_path = source_path, !.previous = file]
    /\ write_call = NoWrite
    /\ load_call = NoLoad
    /\ IdleChunk
    /\ IdleRetrieve
    /\ IdleGemini
    /\ IdleSession
    /\ IdleIngest

\* Lines 156-158: the length test, then open(output_path, "w"), which
\* truncates the file
OpenOutput ==
    /\ writer.pc = "start"
    /\ IF Len(writer.chunks) # Len(writer.vectors)
       THEN /\ writer' = [writer EXCEPT !.pc = "closed", !.exc = "ValueError"]
            /\ UNCHANGED file
       ELSE /\ writer' = [writer EXCEPT !.pc = "open"]
            /\ file' = [exists |-> TRUE, lines |-> <<>>]
    /\ UNCHANGED <<chunkVars, callVars, sessionVars, ingest>>

\* Lines 159-171: one iteration of the loop, f.write of one record line into
\* the buffer of f
WriteRecord ==
    /\ writer.pc = "open"
    /\ writer.written < Len(writer.chunks)
    /\ writer' = [writer EXCEPT !.written = @ + 1]
    /\ UNCHANGED <<file, chunkVars, callVars, sessionVars, ingest>>

\* The buffer of f fills during an f.write and is written out: the file now
\* holds some more of the lines written so far, the last one possibly cut
FlushBuffer ==
    /\ writer.pc = "open"
    /\ \E m \in Flushed..writer.written, cut \in BOOLEAN :
          /\ cut => m < writer.written
          /\ file' = [exists |-> TRUE,
                      lines |-> SubSeq(TargetLines(writer), 1, m)
                                \o (IF cut THEN <<CutLine>> ELSE <<>>)]
          /\ file' # file
    /\ UNCHANGED <<writer, chunkVars, callVars, sessionVars, ingest>>

\* The end of the with block: f is flushed and closed
CloseOutput ==
    /\ writer.pc = "open"
    /\ writer.written = Len(writer.chunks)
    /\ file' = [exists |-> TRUE, lines |-> TargetLines(writer)]
    /\ writer' = [writer EXCEPT !.pc = "closed"]
    /\ UNCHANGED <<chunkVars, callVars, sessionVars, ingest>>

NextOverwrite ==
    \/ OpenOutput
    \/ WriteRecord
    \/ FlushBuffer
    \/ CloseOutput
    \/ LoadCorpus

SpecOverwrite == InitOverwrite /\ [][NextOverwrite]_vars

-----------------------------------------------------------------------------
\* C1 (termination): on the fallback path chunk_text terminates: every
\* iteration of the paragraph loop consumes a paragraph or changes the buffer.
\* The loop is deterministic in (i, current, current_len), so an iteration
\* that changes none of them is repeated forever, appending a chunk each time.
ChunkTextTerminates ==
    [][ParagraphLoopStep =>
          (i' > i \/ <<current, current_len>>' # <<current, current_len>>)]_vars

\* C1 (result): the list chunk_text returns on the fallback path is not empty.
ChunkTextNonEmpty == cpc = "done" => Len(chunks) >= 1

\* C2: a load of a file holding N >= 1 valid record lines and one line that
\* is no valid record succeeds and returns exactly the N records of the valid
\* lines, in order, whatever the bad line is and wherever it sits.
ValidRecordsOf(lines) ==
    SelectSeq([k \in DOMAIN lines |-> JsonLoads(lines[k]).value],
              LAMBDA rec : rec.kind = "dict" /\ {"embedding", "text"} \subseteq rec.keys)

OneBadLine(f) ==
    /\ f.exists
    /\ Cardinality({k \in DOMAIN f.lines : f.lines[k] \in BadLines}) = 1
    /\ Cardinality({k \in DOMAIN f.lines : f.lines[k] \in ValidLines}) = Len(f.lines) - 1
    /\ Len(f.lines) >= 2

OneBadLineIsSkipped ==
    (load_call.called /\ ~write_call.called /\ OneBadLine(file)) =>
        /\ load_call.status = "ok"
        /\ Len(load_call.chunks) = Len(file.lines) - 1
        /\ load_call.chunks = ValidRecordsOf(file.lines)

\* C9: write_jsonl followed by load_embeddings_and_chunks round-trips: for
\* N >= 1 chunks paired with N vectors of the corpus dimension the load
\* succeeds with N records in the written order, each with the id, text,
\* embedding and metadata written, and row k of the matrix is the embedding
\* of record k at float32 precision.
WriteThenLoadRoundTrips ==
    (write_call.called /\ write_call.exc = "none" /\ load_call.called
        /\ Len(write_call.chunks) >= 1) =>
        LET n == Len(write_call.chunks)
            src == write_call.source_path
        IN  /\ load_call.status = "ok"
            /\ Len(load_call.chunks) = n
            /\ Len(load_call.emb) = n
            /\ \A k \in 1..n :
                 LET rec == load_call.chunks[k]
                     c == write_call.chunks[k]
                     v == write_call.vectors[k]
                 IN  /\ rec.id = [base |-> Basename(src), index |-> k - 1]
                     /\ rec.text = c.text
                     /\ rec.embedding = v
                     /\ rec.metadata = [source |-> Abspath(src),
                                        chunk_index |-> PyInt(k - 1),
                                        start_char |-> c.start,
                                        end_char |-> c.end]
                     /\ load_call.emb[k] = [j \in DOMAIN v |-> Float32(v[j])]

\* C9 witness: two records written and loaded back, one with a newline in
\* its text, one with a backslash and a value float32 rounds
RoundTripWitness ==
    /\ write_call.called
    /\ load_call.called
    /\ load_call.status = "ok"
    /\ Len(load_call.chunks) = 2
    /\ load_call.chunks[1].text = <<"a", "\n", "b">>
    /\ load_call.chunks[2].text = <<"\\", "n">>
    /\ load_call.chunks[2].embedding = <<16777217, -1>>
    /\ load_call.emb[2] = <<16777216, -1>>

\* The call has a query vector of the corpus dimension and a matrix
ProperCall(c) ==
    /\ ~c.query_vec.none
    /\ ~c.doc_embeddings.none
    /\ Len(c.query_vec.v) = 2
    /\ \A r \in DOMAIN c.doc_embeddings.rows : Len(c.doc_embeddings.rows[r]) = 2

\* C4: for a corpus of n records and k >= 0 (and a query vector of the
\* corpus dimension) retrieve_top_k returns exactly min(k, n) results, each a
\* distinct corpus record carrying its own score, in non-increasing score
\* order, and no record left out scores strictly higher than a returned one.
TopKIsTheBestK ==
    (retrieve_call.called /\ ProperCall(retrieve_call)) =>
        LET c == retrieve_call
            n == Len(c.doc_embeddings.rows)
            res == c.results
            ix(j) == res[j].id.index + 1
        IN  /\ c.exc = "none"
            /\ Len(res) = Min({c.top_k, n})
            /\ \A j \in DOMAIN res :
                 /\ ix(j) \in 1..n
                 /\ res[j] = [score |-> c.sims[ix(j)]] @@ c.chunks[ix(j)]
                 /\ res[j].score = Score(Dot(c.query_vec.v, c.doc_embeddings.rows[ix(j)]),
                        (IF NormSq(c.query_vec.v) = 0 THEN 1 ELSE NormSq(c.query_vec.v))
                        * (IF NormSq(c.doc_embeddings.rows[ix(j)]) = 0 THEN 1
                           ELSE NormSq(c.doc_embeddings.rows[ix(j)])))
            /\ \A a, b \in DOMAIN res : a # b => ix(a) # ix(b)
            /\ \A a, b \in DOMAIN res : a < b => ScoreGeq(res[a].score, res[b].score)
            /\ \A e \in 1..n : (\A j \in DOMAIN res : ix(j) # e) =>
                 \A j \in DOMAIN res : ScoreGeq(res[j].score, c.sims[e])

\* C4 witness: two of three records returned, the better one first, the
\* third left out
TopKWitness ==
    /\ retrieve_call.called
    /\ ProperCall(retrieve_call)
    /\ Len(retrieve_call.doc_embeddings.rows) = 3
    /\ retrieve_call.top_k = 2
    /\ Len(retrieve_call.results) = 2
    /\ retrieve_call.results[1].score # retrieve_call.results[2].score
    /\ retrieve_call.results[1].id.index = 2

\* C5: retrieve_top_k returns the empty list, raising nothing, whenever the
\* query vector is None or empty or the corpus matrix is None or has no rows.
EmptyInputsGiveEmptyResult ==
    (retrieve_call.called
        /\ (\/ retrieve_call.query_vec.none
            \/ retrieve_call.query_vec.v = <<>>
            \/ retrieve_call.doc_embeddings.none
            \/ retrieve_call.doc_embeddings.rows = <<>>)) =>
        /\ retrieve_call.exc = "none"
        /\ retrieve_call.results = <<>>

\* A row of the corpus is identical to the query vector, and k >= 1
IdenticalRowCall(c) ==
    /\ ProperCall(c)
    /\ c.top_k >= 1
    /\ \E r \in DOMAIN c.doc_embeddings.rows : c.doc_embeddings.rows[r] = c.query_vec.v

\* C6 as claimed: for every query vector, the all-zero one included, a row
\* identical to the query scores 1.0 and is the first result.
IdenticalRowScoresOneAndIsFirst ==
    (retrieve_call.called /\ IdenticalRowCall(retrieve_call)) =>
        LET c == retrieve_call
        IN  /\ c.exc = "none"
            /\ \A r \in DOMAIN c.doc_embeddings.rows :
                 c.doc_embeddings.rows[r] = c.query_vec.v => c.sims[r] = One
            /\ c.results[1].embedding = c.query_vec.v

\* C6 as amended: for a query vector that is not all-zero, a row identical to
\* the query scores 1.0, no row scores higher, the first result scores 1.0,
\* and it is the identical row unless another row scores 1.0 as well (a
\* positive multiple of the query); for the all-zero query every score is 0.
IdenticalRowScoresOneUnlessZero ==
    (retrieve_call.called /\ IdenticalRowCall(retrieve_call)) =>
        LET c == retrieve_call
            rows == c.doc_embeddings.rows
            q == c.query_vec.v
        IN  /\ c.exc = "none"
            /\ NormSq(q) # 0 =>
                 /\ \A r \in DOMAIN rows : rows[r] = q => c.sims[r] = One
                 /\ \A r \in DOMAIN rows : ScoreGeq(One, c.sims[r])
                 /\ c.results[1].score = One
                 /\ (\A r \in DOMAIN rows : c.sims[r] = One => rows[r] = q)
                        => c.results[1].embedding = q
            /\ NormSq(q) = 0 => \A r \in DOMAIN rows : c.sims[r] = Zero

\* C6 witness: the query (1, 1) among rows that score lower, returned first
\* with score 1.0
IdenticalRowWitness ==
    /\ retrieve_call.called
    /\ retrieve_call.query_vec = [none |-> FALSE, v |-> <<1, 1>>]
    /\ retrieve_call.doc_embeddings.rows = << <<1, 0>>, <<1, 1>>, <<0, 1>> >>
    /\ retrieve_call.top_k = 2
    /\ retrieve_call.results[1].embedding = <<1, 1>>
    /\ retrieve_call.results[1].score = One

\* C7: call_gemini propagates no exception: whatever the provider does, it
\* returns the provider's answer text or one of the three canned messages,
\* never internal error text; the provider's text only when the call went
\* through.
CallGeminiNeverRaises ==
    gemini_call.called =>
        LET pr == gemini_call.provider
            went == pr.sdk = "ok" /\ pr.api_key = "key" /\ pr.configure = "ok"
                        /\ pr.generate = "ok"
        IN  /\ gemini_call.exc = "none"
            /\ gemini_call.value \in {ProviderText, ProviderPartText,
                                      ServiceUnavailable, AnswerNotFound,
                                      AnalysisIncomplete}
            /\ gemini_call.value \in {ProviderText, ProviderPartText} => went
            /\ ~went => gemini_call.value \in {ServiceUnavailable, AnswerNotFound}

\* C7 witness: the generate call succeeded, reading resp.text raised, and the
\* canned "answer not found" message came back
CallGeminiWitness ==
    /\ gemini_call.called
    /\ gemini_call.provider.sdk = "ok"
    /\ gemini_call.provider.api_key = "key"
    /\ gemini_call.provider.configure = "ok"
    /\ gemini_call.provider.generate = "ok"
    /\ gemini_call.provider.text = "raises"
    /\ gemini_call.value = AnswerNotFound

\* The corpus file is absent or holds no valid record
CorpusUnavailable(f) == ~f.exists \/ ValidRecordsOf(f.lines) = <<>>

\* C3: the query pipeline fails closed: in a session whose corpus file is
\* absent or yields zero valid records every run ends at the load step with
\* an error shown, nothing is put in the session state and no embed, retrieve
\* or generate step ever runs, whatever the user asks; and retrieval never
\* runs against a matrix without rows.
FailsClosed ==
    /\ CorpusUnavailable(file) =>
         /\ session_state.keys \cap {"doc_embeddings", "chunks"} = {}
         /\ run.pc \in {"idle", "load", "done"}
         /\ run.pc = "done" => shown \in {"prepare-error", "database-missing"}
         /\ run.steps = <<>>
         /\ ~history.served
    /\ run.pc = "retrieve" =>
         /\ "doc_embeddings" \in session_state.keys
         /\ Len(session_state.doc_embeddings) >= 1

\* C3 witness: the file holds lines but no valid record, the user has
\* submitted a question and the run has stopped at the load step
FailsClosedWitness ==
    /\ file.exists
    /\ Len(file.lines) = 2
    /\ CorpusUnavailable(file)
    /\ api_key = "key"
    /\ run.pc = "done"
    /\ run.ask_button
    /\ run.user_question = <<"a">>
    /\ shown = "prepare-error"

FullSequence == <<"embed", "retrieve", "build", "generate">>

\* C8: after a question that ended in an embedding failure, zero results, a
\* generator failure (or an exception the handler caught) the session stays
\* usable: no exception has left main, the loaded corpus is in the session
\* state unchanged, the next run passes the load step, and a submitted
\* question goes through embed, retrieve, build, generate from the start.
SessionStaysUsable ==
    /\ [](/\ run.pc # "crashed"
          /\ history.failed =>
               /\ {"doc_embeddings", "chunks"} \subseteq session_state.keys
               /\ session_state.doc_embeddings = LoadEmbeddingsAndChunks(file).emb
               /\ session_state.chunks = LoadEmbeddingsAndChunks(file).chunks
               /\ run.pc = "load" => ~CorpusStep(session_state, file, cache_data).stop
               /\ run.pc = "embed" => run.steps = <<>>
               /\ (run.pc = "done" /\ shown = "answer") => run.steps = FullSequence)
    /\ [][(/\ history.failed
           /\ run.pc = "ask"
           /\ run.ask_button
           /\ Strip(run.user_question) # <<>>
           /\ api_key = "key") => run'.pc = "embed"]_vars
    /\ [][(history.failed /\ run'.pc \in {"retrieve", "build", "generate"})
            => (UNCHANGED session_state /\ Len(run'.steps) = Len(run.steps) + 1)]_vars

\* C8 witness: a question failed earlier in the session, and a later one has
\* been answered by the provider after the four steps
SessionStaysUsableWitness ==
    /\ history.failed
    /\ history.prev = "answered"
    /\ run.pc = "done"
    /\ shown = "answer"
    /\ run.answer = ProviderText
    /\ run.steps = FullSequence

\* C10: an ingestion run exits non-zero when the input file is missing, when
\* the chunker produced no chunk, when the embedder is unobtainable and when
\* the number of vectors differs from the number of chunks; it exits 0 only
\* when at least one chunk was produced and every chunk was written with its
\* vector.
IngestExitStatus ==
    ingest.pc = "exited" =>
        /\ ~ingest.input_exists => ingest.exit_code # 0
        /\ (cpc = "done" /\ chunks = <<>>) => ingest.exit_code # 0
        /\ ingest.embedder = "unobtainable" => ingest.exit_code # 0
        /\ (ingest.error = "ValueError") => ingest.exit_code # 0
        /\ ingest.exit_code = 0 =>
             /\ Len(chunks) >= 1
             /\ Len(ingest.vectors) = Len(chunks)
             /\ file = WriteJsonlResult(file, AsDicts(chunks), ingest.vectors,
                                        ingest.input).file

-----------------------------------------------------------------------------
\* C11: among records with equal similarity scores retrieve_top_k orders and
\* selects by corpus order: of two returned records with equal scores the
\* lower-indexed comes first, and a record left out never has the score of a
\* returned record with a higher index.
TiesInCorpusOrder ==
    (retrieve_call.called /\ ProperCall(retrieve_call) /\ retrieve_call.exc = "none") =>
        LET c == retrieve_call
            n == Len(c.doc_embeddings.rows)
            res == c.results
            ix(j) == res[j].id.index + 1
        IN  /\ \A a, b \in DOMAIN res :
                 (a < b /\ res[a].score = res[b].score) => ix(a) < ix(b)
            /\ \A e \in 1..n : (\A j \in DOMAIN res : ix(j) # e) =>
                 \A j \in DOMAIN res : c.sims[e] = res[j].score => ix(j) < e

-----------------------------------------------------------------------------
\* C12: a corpus load that interleaves with write_jsonl of a re-ingestion
\* observes the complete previous file or the complete new file: what it
\* returns is what it returns on one of the two.
OverwriteIsAtomic ==
    (load_call.called /\ writer.pc # "idle") =>
        LET new == WriteJsonlResult(writer.previous, writer.chunks, writer.vectors,
                                    writer.source_path).file
        IN  \/ load_call = [called |-> TRUE] @@ LoadEmbeddingsAndChunks(writer.previous)
            \/ load_call = [called |-> TRUE] @@ LoadEmbeddingsAndChunks(new)

-----------------------------------------------------------------------------
\* C13: each submitted question triggers one sequence embed, retrieve, build
\* prompt, generate in this order: the steps of a run are always a prefix of
\* the four, the embedder and the provider are each called at most once, the
\* generate step is reached only with a query vector from the embedder and
\* at least one retrieval result, and a provider call that failed is not
\* made again.
OneSequencePerQuestion ==
    /\ \E k \in 0..Len(FullSequence) : run.steps = SubSeq(FullSequence, 1, k)
    /\ run.calls.embedder <= 1
    /\ run.calls.provider <= 1
    /\ (run.pc = "generate" \/ run.calls.provider > 0
            \/ \E j \in DOMAIN run.steps : run.steps[j] = "generate") =>
         /\ ~run.query_vec.none
         /\ run.results # <<>>
         /\ run.calls.embedder = 1
         /\ SubSeq(run.steps, 1, 3) = SubSeq(FullSequence, 1, 3)

\* C13 witness: a question went through the four steps, the one provider
\* call failed and the canned answer is shown
OneSequenceWitness ==
    /\ run.pc = "done"
    /\ run.steps = FullSequence
    /\ run.calls = [embedder |-> 1, provider |-> 1]
    /\ run.answer = AnswerNotFound

-----------------------------------------------------------------------------
-----------------------------------------------------------------------------
\* C15: along the sequence chunk_text returns, on the splitter path and on
\* the fallback path, the start offsets never decrease.
StartsNeverDecrease ==
    \A k \in 1..(Len(chunks) - 1) : chunks[k].start <= chunks[k + 1].start

====
